---------------------------- MODULE Spec2Model ----------------------------
(***************************************************************************)
(* Gigatron TTL emulator (src/src/main.rs): the driver loop Gigatron::run, *)
(* the CPU core Gigatron::cpuCycle, the sync detector and input mapper     *)
(* Gigatron::vga / process_joystick, and the host-side helpers of VGA.     *)
(*                                                                         *)
(* Registers keep their width: 8-bit values live in 0..255, PC in          *)
(* 0..65535, every arithmetic result is reduced as the Rust code reduces   *)
(* it (wrapping_add, wrapping_sub, wrapping_neg, shifts and masks).        *)
(*                                                                         *)
(* RAM ([u8; 1 << 15]) and ROM ([[u8; 2]; 1 << 16]) are total arrays in    *)
(* the program.  They are represented sparsely: RAM is a record            *)
(* [fill, cells] where cells maps the addresses whose byte differs from    *)
(* fill, and ROM maps the addresses whose entry differs from (0, 0).       *)
(* Peek, Poke and Fetch read and write them as total arrays.               *)
(***************************************************************************)
EXTENDS Integers, Sequences, FiniteSets, TLC

VARIABLES
    ROM,      \* Gigatron.ROM, immutable once read_rom has loaded it
    RAM,      \* Gigatron.RAM
    INreg,    \* Gigatron.IN  (IN is a reserved word)
    S,        \* Gigatron.S, the committed CPU state
    T,        \* the local T of run(): the state cpuCycle returned
    t,        \* Gigatron.t, the cycle counter
    joy,      \* Gigatron.joy, the last direction process_joystick handled
    keys,     \* VGA.keys, the characters the window callback has queued
    down,     \* host keys the window reports as held (Window::is_key_down)
    buffer,   \* VGA.buffer, observed at the offsets SamplePixels
    frames,   \* number of calls of VGA::update, which presents the buffer
              \* while the host window is open
    lastPoll, \* what check_joystick returned in the latest process_joystick
    jumped,   \* whether the latest cpuCycle replaced the incremented PC by a
              \* jump target (the if J block assigned T.PC)
    pc        \* position of run()'s loop body

vars ==
    <<ROM, RAM, INreg, S, T, t, joy, keys, down, buffer, frames, lastPoll, jumped, pc>>

---------------------------------------------------------------------------
(* Bounds of the model *)

\* run() loops forever; the model executes the iterations with t < MaxT.
MaxT == 2
\* most characters the window callback queues between two polls
MaxKeys == 2

---------------------------------------------------------------------------
(* Bit arithmetic on naturals, as the Rust operators &, |, ^ *)

RECURSIVE BitAnd(_, _)
BitAnd(a, b) ==
    IF a = 0 \/ b = 0 THEN 0
    ELSE (a % 2) * (b % 2) + 2 * BitAnd(a \div 2, b \div 2)

RECURSIVE BitOr(_, _)
BitOr(a, b) ==
    IF a = 0 THEN b
    ELSE IF b = 0 THEN a
    ELSE (IF a % 2 = 1 \/ b % 2 = 1 THEN 1 ELSE 0) + 2 * BitOr(a \div 2, b \div 2)

RECURSIVE BitXor(_, _)
BitXor(a, b) ==
    IF a = 0 THEN b
    ELSE IF b = 0 THEN a
    ELSE ((a + b) % 2) + 2 * BitXor(a \div 2, b \div 2)

Byte == 0..255

None == "None"

---------------------------------------------------------------------------
(* Memories *)

\* self.RAM[p]
Peek(ram, p) == IF p \in DOMAIN ram.cells THEN ram.cells[p] ELSE ram.fill

\* self.RAM[p] = v
Poke(ram, p, v) ==
    IF v = ram.fill
    THEN [ram EXCEPT !.cells = [a \in (DOMAIN ram.cells) \ {p} |-> ram.cells[a]]]
    ELSE [ram EXCEPT !.cells = [a \in (DOMAIN ram.cells) \cup {p} |->
                                   IF a = p THEN v ELSE ram.cells[a]]]

\* self.ROM[p], the pair <<opcode byte, data byte>>
Fetch(rom, p) == IF p \in DOMAIN rom THEN rom[p] ELSE <<0, 0>>

---------------------------------------------------------------------------
(* CPU core: Gigatron::cpuCycle *)

\* mutant of E: the write signal does not disable the load
E_alwaysLoad(W, p) == p

\* fn E: disable AC and OUT loading during a RAM write
E(W, p) == IF W THEN None ELSE p

\* fn makeAddr
makeAddr(hi, lo) == BitOr((hi * 256) % 65536, lo)

ins(s) == s.IR \div 32
mode(s) == (s.IR \div 4) % 8
bus(s) == s.IR % 4
W(s) == ins(s) = 6
J(s) == ins(s) = 7

\* mutant of to: the mode decoder also runs for a jump
to_onJump(s) ==
    CASE mode(s) = 0 -> E(W(s), "AC")
      [] mode(s) = 1 -> E(W(s), "AC")
      [] mode(s) = 2 -> E(W(s), "AC")
      [] mode(s) = 3 -> E(W(s), "AC")
      [] mode(s) = 4 -> "X"
      [] mode(s) = 5 -> "Y"
      [] mode(s) = 6 -> E(W(s), "OUT")
      [] mode(s) = 7 -> E(W(s), "OUT")

\* the mode decoder: writeback target
to(s) ==
    IF J(s) THEN None
    ELSE CASE mode(s) = 0 -> E(W(s), "AC")
           [] mode(s) = 1 -> E(W(s), "AC")
           [] mode(s) = 2 -> E(W(s), "AC")
           [] mode(s) = 3 -> E(W(s), "AC")
           [] mode(s) = 4 -> "X"
           [] mode(s) = 5 -> "Y"
           [] mode(s) = 6 -> E(W(s), "OUT")
           [] mode(s) = 7 -> E(W(s), "OUT")

\* the mode decoder: low and high address byte, X increment
lo(s) == IF ~J(s) /\ mode(s) \in {1, 3, 7} THEN s.X ELSE s.D
hi(s) == IF ~J(s) /\ mode(s) \in {2, 3, 7} THEN s.Y ELSE 0

\* mutant of incX: a store does not increment X
incX_notOnStore(s) == ~J(s) /\ mode(s) = 7 /\ ~W(s)

\* mutant of incX: a jump with condition bits 7 increments X
incX_onJump(s) == mode(s) = 7

\* the mode-7 increment of X
incX(s) == ~J(s) /\ mode(s) = 7

addr(s) == makeAddr(hi(s), lo(s))

\* mutant of B: bus mode 0 drives the accumulator instead of D
B_immediateFromAC(s, ram, in) ==
    CASE bus(s) = 0 -> s.AC
      [] bus(s) = 1 -> IF ~W(s) THEN Peek(ram, BitAnd(addr(s), 32767)) ELSE s.undef
      [] bus(s) = 2 -> s.AC
      [] bus(s) = 3 -> in

\* mutant of B: a store with bus = 1 reads RAM
B_storeReadsRAM(s, ram, in) ==
    CASE bus(s) = 0 -> s.D
      [] bus(s) = 1 -> Peek(ram, BitAnd(addr(s), 32767))
      [] bus(s) = 2 -> s.AC
      [] bus(s) = 3 -> in

\* the data bus
B(s, ram, in) ==
    CASE bus(s) = 0 -> s.D
      [] bus(s) = 1 -> IF ~W(s) THEN Peek(ram, BitAnd(addr(s), 32767)) ELSE s.undef
      [] bus(s) = 2 -> s.AC
      [] bus(s) = 3 -> in

\* mutant of ALU: ADDA does not wrap at 8 bits
ALU_addNoWrap(s, b) ==
    CASE ins(s) = 0 -> b
      [] ins(s) = 1 -> BitAnd(s.AC, b)
      [] ins(s) = 2 -> BitOr(s.AC, b)
      [] ins(s) = 3 -> BitXor(s.AC, b)
      [] ins(s) = 4 -> s.AC + b
      [] ins(s) = 5 -> (s.AC - b) % 256
      [] ins(s) = 6 -> s.AC
      [] ins(s) = 7 -> (256 - s.AC) % 256

\* the arithmetic and logic unit
ALU(s, b) ==
    CASE ins(s) = 0 -> b
      [] ins(s) = 1 -> BitAnd(s.AC, b)
      [] ins(s) = 2 -> BitOr(s.AC, b)
      [] ins(s) = 3 -> BitXor(s.AC, b)
      [] ins(s) = 4 -> (s.AC + b) % 256
      [] ins(s) = 5 -> (s.AC - b) % 256
      [] ins(s) = 6 -> s.AC
      [] ins(s) = 7 -> (256 - s.AC) % 256

\* mutant of nextPC: the increment does not wrap at 16 bits
nextPC_noWrap(s, b) ==
    IF J(s)
    THEN IF mode(s) # 0
         THEN LET sAC  == IF s.AC = 0 THEN 1 ELSE 0
                  cond == (s.AC \div 128) + 2 * sAC
                  st   == BitAnd(mode(s), 2^cond)
              IN  IF st > 0
                  THEN BitOr(BitAnd(s.PC, 65280), b)
                  ELSE s.PC + 1
         ELSE makeAddr(s.Y, b)
    ELSE s.PC + 1

\* mutant of nextPC: the zero flag is not weighted by two
nextPC_zeroAsNegative(s, b) ==
    IF J(s)
    THEN IF mode(s) # 0
         THEN LET sAC  == IF s.AC = 0 THEN 1 ELSE 0
                  cond == (s.AC \div 128) + sAC
                  st   == BitAnd(mode(s), 2^cond)
              IN  IF st > 0
                  THEN BitOr(BitAnd(s.PC, 65280), b)
                  ELSE (s.PC + 1) % 65536
         ELSE makeAddr(s.Y, b)
    ELSE (s.PC + 1) % 65536

\* the program counter of the new state
nextPC(s, b) ==
    IF J(s)
    THEN IF mode(s) # 0
         THEN LET sAC  == IF s.AC = 0 THEN 1 ELSE 0
                  cond == (s.AC \div 128) + 2 * sAC
                  st   == BitAnd(mode(s), 2^cond)
              IN  IF st > 0
                  THEN BitOr(BitAnd(s.PC, 65280), b)
                  ELSE (s.PC + 1) % 65536
         ELSE makeAddr(s.Y, b)
    ELSE (s.PC + 1) % 65536

\* the if J block assigns T.PC: a far jump, or a branch whose condition holds
taken(s) ==
    /\ J(s)
    /\ \/ mode(s) = 0
       \/ LET sAC  == IF s.AC = 0 THEN 1 ELSE 0
              cond == (s.AC \div 128) + 2 * sAC
          IN  BitAnd(mode(s), 2^cond) > 0

\* mutant of cycleRAM: the write address is not masked to 15 bits
cycleRAM_noMask(s, ram, in) ==
    IF W(s) THEN Poke(ram, addr(s), B(s, ram, in)) ELSE ram

\* the RAM after the cycle
cycleRAM(s, ram, in) ==
    IF W(s) THEN Poke(ram, BitAnd(addr(s), 32767), B(s, ram, in)) ELSE ram

\* mutant of cpuCycle: the fetch uses the new program counter
cpuCycle_fetchNewPc(s, rom, ram, in) ==
    LET b   == B(s, ram, in)
        alu == ALU(s, b)
    IN  [PC    |-> nextPC(s, b),
         IR    |-> Fetch(rom, nextPC(s, b))[1],
         D     |-> Fetch(rom, nextPC(s, b))[2],
         AC    |-> IF to(s) = "AC" THEN alu ELSE s.AC,
         X     |-> IF incX(s) THEN (s.X + 1) % 256
                   ELSE IF to(s) = "X" THEN alu ELSE s.X,
         Y     |-> IF to(s) = "Y" THEN alu ELSE s.Y,
         OUT   |-> IF to(s) = "OUT" THEN alu ELSE s.OUT,
         undef |-> s.undef]

\* the state cpuCycle returns
cpuCycle(s, rom, ram, in) ==
    LET b   == B(s, ram, in)
        alu == ALU(s, b)
    IN  [PC    |-> nextPC(s, b),
         IR    |-> Fetch(rom, s.PC)[1],
         D     |-> Fetch(rom, s.PC)[2],
         AC    |-> IF to(s) = "AC" THEN alu ELSE s.AC,
         X     |-> IF incX(s) THEN (s.X + 1) % 256
                   ELSE IF to(s) = "X" THEN alu ELSE s.X,
         Y     |-> IF to(s) = "Y" THEN alu ELSE s.Y,
         OUT   |-> IF to(s) = "OUT" THEN alu ELSE s.OUT,
         undef |-> s.undef]


---------------------------------------------------------------------------
(* Video: colour unpacking and the frame renderer *)

\* fn bright (defined on the four 2-bit values)
bright(v) ==
    CASE v = 3 -> 255
      [] v = 2 -> 63
      [] v = 1 -> 15
      [] v = 0 -> 3

\* mutant of unpack_color: red and blue taken from each other's bits
unpack_color_bgr(reg) ==
    LET r6 == BitAnd(reg, 63)
    IN  <<bright(BitAnd(r6 \div 16, 3)),
          bright(BitAnd(r6 \div 4, 3)),
          bright(BitAnd(r6, 3))>>

\* fn unpack_color: the Color(red, green, blue) of a pixel byte
unpack_color(reg) ==
    LET r6 == BitAnd(reg, 63)
    IN  <<bright(BitAnd(r6, 3)),
          bright(BitAnd(r6 \div 4, 3)),
          bright(BitAnd(r6 \div 16, 3))>>

\* fn makeRGB
makeRGB(c) == BitOr(BitOr(c[1] * 65536, c[2] * 256), c[3])

\* VGA::new(640, 480)
width == 640
height == 480

\* offsets of VGA.buffer the model observes: the first pixel, the pixel of
\* RAM[0x1234], and the last pixel
SamplePixels == {0, 25808, 307199}

\* Gigatron::render2: the pixel render2 stores at offset i of the buffer
render2Pixel(ram, i) ==
    LET vgaX   == i % width
        vgaY   == i \div width
        scaleX == width \div 160
        scaleY == height \div 120
        x      == vgaX \div scaleX
        y      == vgaY \div scaleY
        a      == 2048 + y * 256 + x
        v      == IF a < 32768 THEN Peek(ram, a) ELSE 0
    IN  makeRGB(unpack_color(v))

render2(ram) == [i \in SamplePixels |-> render2Pixel(ram, i)]

\* mutant of vSync: level-triggered on the new OUT
vSync_level(s, tt) == BitAnd(tt.OUT, 128) = 0

\* the sync edges Gigatron::vga computes from S.OUT and T.OUT
hSync(s, tt) == BitAnd(s.OUT, 64) > 0 /\ BitAnd(tt.OUT, 64) = 0
vSync(s, tt) == BitAnd(s.OUT, 128) > 0 /\ BitAnd(tt.OUT, 128) = 0

---------------------------------------------------------------------------
(* Input mapper *)

\* minifb keys the joystick poll asks for
HostKeys == {"Up", "Down", "Left", "Right", "Enter", "Backspace", "Space", "Tab"}

\* enum Direction
Direction ==
    {"Up", "Left", "Right", "Down", "ButtonA", "ButtonB", "Start", "Select"}

\* Option<char>: <<>> is None, <<c>> is Some(c)
\* char::from_u32: a Unicode scalar value, or None
from_u32(u) == IF u <= 1114111 /\ ~(u >= 55296 /\ u <= 57343) THEN <<u>> ELSE <<>>

\* VGA::check_key: the loop overwrites key with every queued element
check_key(ks) == IF ks = <<>> THEN <<>> ELSE from_u32(ks[Len(ks)])

\* mutant of check_joystick: Tab is tested before Space
check_joystick_spaceLast(d) ==
    LET r1 == IF "Up" \in d THEN "Up" ELSE None
        r2 == IF "Down" \in d THEN "Down" ELSE r1
        r3 == IF "Left" \in d THEN "Left" ELSE r2
        r4 == IF "Right" \in d THEN "Right" ELSE r3
        r5 == IF "Enter" \in d THEN "Start" ELSE r4
        r6 == IF "Backspace" \in d THEN "Select" ELSE r5
        r7 == IF "Tab" \in d THEN "ButtonB" ELSE r6
        r8 == IF "Space" \in d THEN "ButtonA" ELSE r7
    IN  r8

\* VGA::check_joystick: eight tests in sequence, each overwriting result
check_joystick(d) ==
    LET r1 == IF "Up" \in d THEN "Up" ELSE None
        r2 == IF "Down" \in d THEN "Down" ELSE r1
        r3 == IF "Left" \in d THEN "Left" ELSE r2
        r4 == IF "Right" \in d THEN "Right" ELSE r3
        r5 == IF "Enter" \in d THEN "Start" ELSE r4
        r6 == IF "Backspace" \in d THEN "Select" ELSE r5
        r7 == IF "Space" \in d THEN "ButtonA" ELSE r6
        r8 == IF "Tab" \in d THEN "ButtonB" ELSE r7
    IN  r8

\* the keyboard part of Gigatron::vga: RAM after the character poll
keyRAM(ram, ks) ==
    LET key == check_key(ks)
    IN  IF key # <<>> /\ key[1] <= 255
        THEN Poke(Poke(ram, 15, key[1]), 16, 0)
        ELSE ram

\* the byte process_joystick stores at RAM[0x0011] for direction j
joyByte(j) ==
    CASE j = "Right"   -> 254
      [] j = "Left"    -> 253
      [] j = "Down"    -> 251
      [] j = "Up"      -> 247
      [] j = "Start"   -> 239
      [] j = "Select"  -> 223
      [] j = "ButtonB" -> 191
      [] j = "ButtonA" -> 127

\* Gigatron::process_joystick: the new self.joy and RAM
process_joystick(pj, ram, d) ==
    LET j == check_joystick(d)
    IN  IF j = None \/ pj = j
        THEN [joy |-> pj, RAM |-> ram]
        ELSE [joy |-> j, RAM |-> Poke(Poke(ram, 17, joyByte(j)), 16, 0)]

---------------------------------------------------------------------------
(* The driver loop Gigatron::run, one action per statement of its body *)

\* mutant of Reset: the reset is released one cycle early
Reset_releasedEarly ==
    /\ pc = "reset"
    /\ t < MaxT
    /\ S' = IF t < -1 THEN [S EXCEPT !.PC = 0] ELSE S
    /\ pc' = "cpu"
    /\ UNCHANGED <<ROM, RAM, INreg, T, t, joy, keys, down, buffer, frames, lastPoll, jumped>>

\* mutant of Reset: the reset is held one cycle too long
Reset_heldLate ==
    /\ pc = "reset"
    /\ t < MaxT
    /\ S' = IF t <= 0 THEN [S EXCEPT !.PC = 0] ELSE S
    /\ pc' = "cpu"
    /\ UNCHANGED <<ROM, RAM, INreg, T, t, joy, keys, down, buffer, frames, lastPoll, jumped>>

\* if self.t < 0 { self.S.PC = 0 }
Reset ==
    /\ pc = "reset"
    /\ t < MaxT
    /\ S' = IF t < 0 THEN [S EXCEPT !.PC = 0] ELSE S
    /\ pc' = "cpu"
    /\ UNCHANGED <<ROM, RAM, INreg, T, t, joy, keys, down, buffer, frames, lastPoll, jumped>>

\* let mut T = self.cpuCycle()
CpuCycle ==
    /\ pc = "cpu"
    /\ T' = cpuCycle(S, ROM, RAM, INreg)
    /\ RAM' = cycleRAM(S, RAM, INreg)
    /\ jumped' = taken(S)
    /\ pc' = "vga"
    /\ UNCHANGED <<ROM, INreg, S, t, joy, keys, down, buffer, frames, lastPoll>>

\* mutant of Vga: the joystick poll also feeds the input byte
Vga_feedsIN ==
    /\ pc = "vga"
    /\ buffer' = IF vSync(S, T) THEN render2(RAM) ELSE buffer
    /\ frames' = IF vSync(S, T) THEN frames + 1 ELSE frames
    /\ keys' = <<>>
    /\ LET r == process_joystick(joy, keyRAM(RAM, keys), down)
       IN  /\ RAM' = r.RAM
           /\ joy' = r.joy
           /\ INreg' = IF r.joy = None THEN INreg ELSE joyByte(r.joy)
    /\ lastPoll' = check_joystick(down)
    /\ pc' = "commit"
    /\ UNCHANGED <<ROM, S, T, t, down, jumped>>

\* self.vga(&mut T): render and update on a vertical-sync edge, then the
\* character poll and the joystick poll, in every call
Vga ==
    /\ pc = "vga"
    /\ buffer' = IF vSync(S, T) THEN render2(RAM) ELSE buffer
    /\ frames' = IF vSync(S, T) THEN frames + 1 ELSE frames
    /\ keys' = <<>>
    /\ LET r == process_joystick(joy, keyRAM(RAM, keys), down)
       IN  /\ RAM' = r.RAM
           /\ joy' = r.joy
    /\ lastPoll' = check_joystick(down)
    /\ pc' = "commit"
    /\ UNCHANGED <<ROM, INreg, S, T, t, down, jumped>>

\* self.S = T; self.t += 1
Commit ==
    /\ pc = "commit"
    /\ S' = T
    /\ t' = t + 1
    /\ pc' = "reset"
    /\ UNCHANGED <<ROM, RAM, INreg, T, joy, keys, down, buffer, frames, lastPoll, jumped>>

---------------------------------------------------------------------------
(* The host: the user's keys, seen by the program only at a poll *)

\* key sets the user holds: none, one key, two keys that check_joystick
\* tests one after the other, or all of them
KeyOrder == <<"Up", "Down", "Left", "Right", "Enter", "Backspace", "Space", "Tab">>
KeySets ==
    {{}} \cup {{k} : k \in HostKeys}
         \cup {{KeyOrder[i], KeyOrder[i + 1]} : i \in 1..7}
         \cup {HostKeys}

\* code units the window delivers: 'A', the euro sign, a lone surrogate
Chars == {65, 8364, 55296}

\* the user changes the keys held before the poll of this iteration
PressKeys ==
    /\ pc = "vga"
    /\ \E d \in KeySets : d # down /\ down' = d
    /\ UNCHANGED <<ROM, RAM, INreg, S, T, t, joy, keys, buffer, frames, lastPoll, jumped, pc>>

\* Input::add_char, the window's character callback
add_char ==
    /\ pc = "vga"
    /\ Len(keys) < MaxKeys
    /\ \E c \in Chars : keys' = Append(keys, c)
    /\ UNCHANGED <<ROM, RAM, INreg, S, T, t, joy, down, buffer, frames, lastPoll, jumped, pc>>

---------------------------------------------------------------------------
(* Power-on states: Gigatron::new, init (garble) and read_rom *)

\* ROM images
RomLd  == (0 :> <<0, 66>>)                          \* LD  #0x42 -> AC
RomJmp == (0 :> <<224, 255>>) @@ (4863 :> <<240, 64>>) \* JMP Y,#0xFF ; BEQ 0x40
RomOut == (0 :> <<24, 192>>) @@ (1 :> <<24, 0>>)    \* LD #0xC0 -> OUT ; LD #0 -> OUT
RomSt  == (0 :> <<194, 16>>)                        \* ST AC -> [0x10]
RomIn  == (0 :> <<194, 16>>) @@ (1 :> <<3, 0>>)     \* ST AC -> [0x10] ; LD IN -> AC
Roms == {RomLd, RomJmp, RomOut, RomSt}

NoCells == [a \in {} |-> 0]

\* outcomes of garble() for PC, D, X, Y, OUT, undef and RAM
Garbles ==
    { [PC |-> 0, D |-> 0, X |-> 0, Y |-> 0, OUT |-> 0, undef |-> 0,
       RAM |-> [fill |-> 0, cells |-> NoCells]],
      [PC |-> 512, D |-> 17, X |-> 52, Y |-> 18, OUT |-> 255, undef |-> 165,
       RAM |-> [fill |-> 0, cells |-> (16 :> 3)]],
      [PC |-> 65535, D |-> 192, X |-> 255, Y |-> 255, OUT |-> 0, undef |-> 60,
       RAM |-> [fill |-> 43, cells |-> NoCells]] }

\* outcomes of garble() for AC: zero, positive, negative
GarbleAC == {0, 90, 128}

InitWith(irs, acs, gs, roms) ==
    /\ ROM \in roms
    /\ \E ir \in irs, ac \in acs, g \in gs :
          /\ S = [PC |-> g.PC, IR |-> ir, D |-> g.D, AC |-> ac, X |-> g.X,
                  Y |-> g.Y, OUT |-> g.OUT, undef |-> g.undef]
          /\ RAM = g.RAM
    /\ T = S
    /\ INreg = 255
    /\ t = -2
    /\ joy = None
    /\ keys = <<>>
    /\ down = {}
    /\ buffer = [i \in SamplePixels |-> 0]
    /\ frames = 0
    /\ lastPoll = None
    /\ jumped = FALSE
    /\ pc = "reset"

\* the CPU seen broadly, the host idle
Init == InitWith(0..255, GarbleAC, Garbles, Roms)

Next == Reset \/ CpuCycle \/ Vga \/ Commit

Spec == Init /\ [][Next]_vars

\* the host seen broadly, a few power-on states
InitInput == InitWith({0, 24}, {90}, Garbles, {RomIn})

NextInput == Reset \/ CpuCycle \/ Vga \/ Commit \/ PressKeys \/ add_char

SpecInput == InitInput /\ [][NextInput]_vars

---------------------------------------------------------------------------
(* The renderer's power-on states *)

\* outcomes of garble() for the renderer: every byte value in the frame
\* buffer's RAM, the vertical sync output high
GarblesColor ==
    { [PC |-> 0, D |-> 0, X |-> 0, Y |-> 0, OUT |-> 255, undef |-> 0,
       RAM |-> [fill |-> v, cells |-> NoCells]] : v \in 0..255 }

\* the renderer seen broadly: the garbled LD 0 -> OUT of the first cycle and
\* the LD 0 -> OUT of the ROM each make a vertical sync edge
InitColor == InitWith({24}, {0}, GarblesColor, {RomOut})

SpecColor == InitColor /\ [][Next]_vars

---------------------------------------------------------------------------
(* Properties.  After CpuCycle and until Commit, S is the state the cycle  *)
(* started from and T the state it produced.                               *)

\* the cycle of this iteration has run and is not yet committed
Cycled == pc \in {"vga", "commit"}

\* the three decoded fields of the executing instruction, from S.IR
insOf(ir) == ir \div 32
modeOf(ir) == (ir \div 4) % 8

\* the condition index of a branch: 0 for AC in 1..127, 1 for AC in
\* 128..255, 2 for AC = 0
CondIndex(ac) == IF ac = 0 THEN 2 ELSE IF ac >= 128 THEN 1 ELSE 0

\* bit i of the natural number n
BitOf(n, i) == (n \div (2^i)) % 2

\* the condition of a conditional branch is met
CondMet(s) == BitOf(modeOf(s.IR), CondIndex(s.AC)) = 1

\* C1: in every cycle that executes a store (S.IR >> 5 = 6), whatever the
\* mode and bus, AC and OUT keep their value, while in mode 4 register X and
\* in mode 5 register Y receives the ALU value, which for a store is S.AC.
C1_StoreKeepsAcOut ==
    (Cycled /\ insOf(S.IR) = 6) =>
        /\ T.AC = S.AC
        /\ T.OUT = S.OUT
        /\ (modeOf(S.IR) = 4 => T.X = S.AC)
        /\ (modeOf(S.IR) = 5 => T.Y = S.AC)

\* a store to [D] with target Y has run and changed Y to the accumulator
C1_Witness ==
    /\ pc = "vga"
    /\ insOf(S.IR) = 6
    /\ modeOf(S.IR) = 5
    /\ S.OUT # S.AC
    /\ T.Y = S.AC
    /\ T.Y # S.Y

\* C2: in every cycle that is not a jump, and in every conditional jump
\* whose condition is not met, the new PC is (S.PC + 1) mod 65536, wrapping
\* from 0xFFFF to 0; PC never leaves 0..0xFFFF.
C2_PcIncrements ==
    /\ S.PC \in 0..65535
    /\ T.PC \in 0..65535
    /\ (Cycled /\ (insOf(S.IR) # 7 \/ (modeOf(S.IR) # 0 /\ ~CondMet(S)))) =>
           T.PC = (IF S.PC = 65535 THEN 0 ELSE S.PC + 1)

\* a non-jump cycle at PC = 0xFFFF has wrapped PC to 0
C2_Witness ==
    /\ pc = "vga"
    /\ insOf(S.IR) # 7
    /\ S.PC = 65535
    /\ T.PC = 0

\* C3: in a jump cycle with bus value b: mode 0 jumps far to (S.Y << 8) | b;
\* a mode in 1..7 branches to (S.PC & 0xFF00) | b exactly when bit s of the
\* mode is set, s being 0 for AC in 1..127, 1 for AC in 128..255 and 2 for
\* AC = 0, and otherwise steps to S.PC + 1; mode 7 always branches.
C3_JumpTargets ==
    (pc = "vga" /\ insOf(S.IR) = 7) =>
        LET b == B(S, RAM, INreg)
            m == modeOf(S.IR)
        IN  /\ b \in 0..255
            /\ CondIndex(S.AC) \in 0..2
            /\ (m = 0 => T.PC = S.Y * 256 + b)
            /\ (m # 0 /\ CondMet(S) => T.PC = (S.PC \div 256) * 256 + b)
            /\ (m # 0 /\ ~CondMet(S) => T.PC = (S.PC + 1) % 65536)
            /\ (m = 7 => T.PC = (S.PC \div 256) * 256 + b)

\* a branch-if-zero in page 0x12 was taken to 0x1240
C3_Witness ==
    /\ pc = "vga"
    /\ S.IR = 240
    /\ S.AC = 0
    /\ S.PC = 4863
    /\ T.PC = 4672

\* the values a cycle that starts from PC = 0 can compute for the new PC
PcFromZero(s, b) == {1, b, s.Y * 256 + b}

\* C4 as stated: in every cycle executed while t is negative the program
\* counter of the resulting state T is 0, whatever the instruction computes.
C4_ResetZeroesNewPc ==
    (Cycled /\ t < 0) => T.PC = 0

\* C4 amended: in every cycle executed while t is negative the program
\* counter the cycle starts from (S.PC, the fetch address and the base of
\* the increment and of a near branch) is 0, whatever the previous cycle
\* computed for it; the resulting T.PC is what the executed instruction
\* computes from S.PC = 0: 1, the branch target b or the far target.
C4_ResetZeroesStartPc ==
    /\ (pc \in {"cpu", "vga", "commit"} /\ t < 0) => S.PC = 0
    /\ (pc = "vga" /\ t < 0) =>
           /\ T.IR = Fetch(ROM, 0)[1]
           /\ T.D = Fetch(ROM, 0)[2]
           /\ T.PC \in PcFromZero(S, B(S, RAM, INreg))

\* the second cycle starts from PC = 0 although the first computed a
\* far-jump target, and it again leaves a nonzero PC in T
C4_Witness ==
    /\ pc = "vga"
    /\ t = -1
    /\ S.PC = 0
    /\ insOf(S.IR) = 7
    /\ T.PC = 65535

\* C5: the cycle counter starts at -2 and grows by exactly 1 per iteration;
\* the reset forces PC to 0 in the iterations with t = -2 and t = -1 and
\* leaves the committed state alone in every later iteration.
C5_ResetTwoCycles ==
    /\ t = -2
    /\ [][ /\ (pc = "commit") => t' = t + 1
           /\ (pc # "commit") => t' = t
           /\ (pc = "reset" /\ t \in {-2, -1}) => S' = [S EXCEPT !.PC = 0]
           /\ (pc = "reset" /\ t \notin {-2, -1}) => (t >= 0 /\ S' = S)
         ]_vars

\* the third iteration (t = 0) has passed the reset with a nonzero PC
C5_Witness ==
    /\ pc = "cpu"
    /\ t = 0
    /\ S.PC # 0

ZeroS ==
    [PC |-> 0, IR |-> 0, D |-> 0, AC |-> 0, X |-> 0, Y |-> 0, OUT |-> 0, undef |-> 0]

ZeroRAM == [fill |-> 0, cells |-> NoCells]

\* C6 as stated: from zeroed RAM and CPU state with ROM[0] = (0, v), one
\* CPU cycle gives AC = v and PC = 1 and changes nothing else.
C6_LdImmediateOneCycle ==
    [][ (pc = "cpu" /\ S = ZeroS /\ RAM = ZeroRAM /\ Fetch(ROM, 0)[1] = 0) =>
            /\ T' = [ZeroS EXCEPT !.AC = Fetch(ROM, 0)[2], !.PC = 1]
            /\ RAM' = RAM
      ]_vars

\* C6 amended: from zeroed RAM and CPU state with ROM[0] = (0, v), one CPU
\* cycle fetches the pair, IR = 0 and D = v, and sets PC = 1 while AC is
\* still 0 and nothing else changes; AC = v holds after the following
\* cycle, which executes the fetched pair, and RAM is unchanged by both.
C6_LdImmediateTwoCycles ==
    [][ /\ (pc = "cpu" /\ S = ZeroS /\ RAM = ZeroRAM /\ Fetch(ROM, 0)[1] = 0) =>
               /\ T' = [ZeroS EXCEPT !.D = Fetch(ROM, 0)[2], !.PC = 1]
               /\ RAM' = RAM
        /\ (pc = "cpu" /\ S = [ZeroS EXCEPT !.D = Fetch(ROM, 0)[2]]
                       /\ RAM = ZeroRAM /\ Fetch(ROM, 0)[1] = 0) =>
               /\ T' = [ZeroS EXCEPT !.D = Fetch(ROM, 0)[2],
                                     !.AC = Fetch(ROM, 0)[2], !.PC = 1]
               /\ RAM' = RAM
      ]_vars

\* the second cycle after a zeroed power-on has loaded 0x42 into AC
C6_Witness ==
    /\ pc = "vga"
    /\ t = -1
    /\ S = [ZeroS EXCEPT !.D = 66]
    /\ RAM = ZeroRAM
    /\ T.AC = 66
    /\ T.PC = 1

\* OUT bit 7 (vSync) falls from S to T
VsEdge == BitOf(S.OUT, 7) = 1 /\ BitOf(T.OUT, 7) = 0

\* the step is the vga call of this iteration
Polling == pc = "vga" /\ pc' = "commit"

\* C7: a frame is rendered (the buffer rebuilt from RAM and handed to the
\* window) in a cycle exactly when OUT bit 7 is 1 before the cycle and 0
\* after it: one fall of bit 7 renders one frame, a cycle without that fall
\* (bit 7 staying low, or only bit 6 falling) renders none, and no other
\* step touches the buffer.
C7_RenderOnVsyncEdge ==
    [][ /\ (Polling /\ VsEdge) =>
               /\ frames' = frames + 1
               /\ buffer' = [i \in SamplePixels |->
                                render2Pixel(RAM, i)]
        /\ (Polling /\ ~VsEdge) => (frames' = frames /\ buffer' = buffer)
        /\ (~Polling) => (frames' = frames /\ buffer' = buffer)
        /\ (frames' # frames) => (S.OUT >= 128 /\ T.OUT < 128)
      ]_vars

\* a second frame has been rendered: bit 7 fell, rose and fell again
C7_Witness ==
    /\ pc = "commit"
    /\ frames = 2
    /\ S.OUT >= 128
    /\ T.OUT < 128

\* the host keyboard and joystick were not polled and RAM is as it was
NoPoll ==
    /\ RAM' = RAM
    /\ keys' = keys
    /\ joy' = joy
    /\ lastPoll' = lastPoll

\* C8 as stated: the input mapper polls the host and writes RAM[0x000F],
\* RAM[0x0010], RAM[0x0011] only in cycles whose vertical-sync edge renders
\* a frame; in a cycle without that edge it polls nothing and changes no
\* RAM byte.
C8_PollOnlyOnRender ==
    [][ (Polling /\ ~VsEdge) => NoPoll ]_vars

\* C9 as stated: a poll that reports direction d writes RAM[0x0011] and
\* clears RAM[0x0010] exactly when the preceding poll did not report d, and
\* is suppressed exactly when the preceding poll reported the same d.
C9_EdgeOnPreviousPoll ==
    [][ (Polling /\ check_joystick(down) # None) =>
            LET d == check_joystick(down)
            IN  /\ (lastPoll # d) =>
                       /\ Peek(RAM', 17) = joyByte(d)
                       /\ Peek(RAM', 16) = 0
                /\ (lastPoll = d) => RAM' = keyRAM(RAM, keys)
      ]_vars

\* the input a host key stands for, and the bit of RAM[0x0011] it clears
InputOf(k) ==
    CASE k = "Space"     -> [dir |-> "ButtonA", bit |-> 7]
      [] k = "Tab"       -> [dir |-> "ButtonB", bit |-> 6]
      [] k = "Backspace" -> [dir |-> "Select",  bit |-> 5]
      [] k = "Enter"     -> [dir |-> "Start",   bit |-> 4]
      [] k = "Up"        -> [dir |-> "Up",      bit |-> 3]
      [] k = "Down"      -> [dir |-> "Down",    bit |-> 2]
      [] k = "Left"      -> [dir |-> "Left",    bit |-> 1]
      [] k = "Right"     -> [dir |-> "Right",   bit |-> 0]

\* the first key of the priority list order that is held in d
Winner(order, d) ==
    order[CHOOSE i \in 1..Len(order) :
              /\ order[i] \in d
              /\ \A j \in 1..(i - 1) : order[j] \notin d]

\* a poll with keys held reports the winner under order, and when it writes
\* (the winner is not the direction handled last) it stores 0xFF with only
\* the winner's bit cleared in RAM[0x0011] and clears RAM[0x0010]
PollFollows(order) ==
    (Polling /\ down # {}) =>
        LET w == InputOf(Winner(order, down))
        IN  /\ lastPoll' = w.dir
            /\ joy' = w.dir
            /\ (joy # w.dir) =>
                   /\ Peek(RAM', 17) = 255 - 2^(w.bit)
                   /\ Peek(RAM', 16) = 0

\* C10 as stated: with several mapped keys held in one poll the reported
\* input is the highest in the order A, B, Select, Start, Right, Left,
\* Down, Up, and RAM[0x0011] gets 0xFF with only that input's bit cleared.
C10_PriorityAFirst ==
    [][ PollFollows(<<"Space", "Tab", "Backspace", "Enter",
                      "Right", "Left", "Down", "Up">>) ]_vars

\* C10 amended: the reported input is the highest in the order B, A,
\* Select, Start, Right, Left, Down, Up (B = Tab beats A = Space, A beats
\* Select, ..., Down beats Up), and RAM[0x0011] gets 0xFF with only that
\* input's bit cleared.
C10_PriorityBFirst ==
    [][ PollFollows(<<"Tab", "Space", "Backspace", "Enter",
                      "Right", "Left", "Down", "Up">>) ]_vars

\* Space and Tab were held in one poll, which reported B and wrote 0xBF
C10_Witness ==
    /\ pc = "commit"
    /\ down = {"Space", "Tab"}
    /\ lastPoll = "ButtonB"
    /\ joy = "ButtonB"
    /\ Peek(RAM, 17) = 191
    /\ Peek(RAM, 16) = 0

\* the step is the cpuCycle call of this iteration
Cycling == pc = "cpu" /\ pc' = "vga"

\* the RAM cells that can differ between the arrays r1 and r2
Touched(r1, r2) == DOMAIN r1.cells \cup DOMAIN r2.cells

\* r2 is r1 except possibly at the cells in ps
SameExcept(r1, r2, ps) ==
    /\ r2.fill = r1.fill
    /\ \A a \in Touched(r1, r2) \ ps : Peek(r2, a) = Peek(r1, a)

\* the address bytes of the executing instruction, by mode
LoOf(s) == IF modeOf(s.IR) \in {1, 3, 7} THEN s.X ELSE s.D
HiOf(s) == IF modeOf(s.IR) \in {2, 3, 7} THEN s.Y ELSE 0

\* the RAM index of the executing instruction: ((hi << 8) | lo) & 0x7FFF
IndexOf(s) == (HiOf(s) * 256 + LoOf(s)) % 32768

\* C11: a CPU cycle changes RAM only when ins = 6, and then exactly the cell
\* ((hi << 8) | lo) & 0x7FFF, which gets the bus value, with (lo, hi) =
\* (D, 0) for modes 0, 4, 5, 6, (X, 0) for mode 1, (D, Y) for mode 2 and
\* (X, Y) for modes 3 and 7; the index is below 0x8000, so the addresses a
\* and a + 0x8000 name the same cell, and every other cell is unchanged.
C11_StoreWritesOneCell ==
    [][ Cycling =>
            /\ (insOf(S.IR) # 6) => RAM' = RAM
            /\ (insOf(S.IR) = 6) =>
                   /\ IndexOf(S) \in 0..32767
                   /\ Peek(RAM', IndexOf(S)) = B(S, RAM, INreg)
                   /\ SameExcept(RAM, RAM', {IndexOf(S)})
                   /\ \A a \in DOMAIN RAM'.cells : a < 32768
      ]_vars

\* a store through [Y,X] = 0xFFFF has put AC into cell 0x7FFF
C11_Witness ==
    /\ pc = "vga"
    /\ S.IR = 206
    /\ S.X = 255
    /\ S.Y = 255
    /\ S.AC = 90
    /\ Peek(RAM, 32767) = 90
    /\ RAM.fill = 43

\* the bus value of the executing instruction, by bus mode, read before the
\* cycle: D, RAM at the instruction's index, AC or the input byte
BusOf(s, ram, in) ==
    CASE s.IR % 4 = 0 -> s.D
      [] s.IR % 4 = 1 -> Peek(ram, IndexOf(s))
      [] s.IR % 4 = 2 -> s.AC
      [] s.IR % 4 = 3 -> in

\* the result of operation i in 0..5 on the accumulator ac and the bus value b
AluOf(i, ac, b) ==
    CASE i = 0 -> b
      [] i = 1 -> BitAnd(ac, b)
      [] i = 2 -> BitOr(ac, b)
      [] i = 3 -> BitXor(ac, b)
      [] i = 4 -> IF ac + b > 255 THEN ac + b - 256 ELSE ac + b
      [] i = 5 -> IF ac < b THEN ac - b + 256 ELSE ac - b

\* the byte a store puts on the bus: D, the undef register, AC or the input
StoredOf(s, in) ==
    CASE s.IR % 4 = 0 -> s.D
      [] s.IR % 4 = 1 -> s.undef
      [] s.IR % 4 = 2 -> s.AC
      [] s.IR % 4 = 3 -> in

\* C12: in a non-jump cycle with mode 7, X becomes (X + 1) mod 256 for every
\* instruction, a store included; the RAM address is formed from X before the
\* increment; OUT gets the ALU result for ins 0..5 and is unchanged by a
\* store. In every other cycle X changes only as the writeback target of
\* mode 4.
C12_Mode7IncrementsX ==
    [][ Cycling =>
            /\ (insOf(S.IR) # 7 /\ modeOf(S.IR) = 7) =>
                   /\ T'.X = (S.X + 1) % 256
                   /\ (insOf(S.IR) <= 5) =>
                          T'.OUT = AluOf(insOf(S.IR), S.AC, BusOf(S, RAM, INreg))
                   /\ (insOf(S.IR) = 6) =>
                          /\ T'.OUT = S.OUT
                          /\ Peek(RAM', (S.Y * 256 + S.X) % 32768) = StoredOf(S, INreg)
                          /\ SameExcept(RAM, RAM', {(S.Y * 256 + S.X) % 32768})
            /\ (insOf(S.IR) = 7 \/ modeOf(S.IR) \notin {4, 7}) => T'.X = S.X
            /\ (insOf(S.IR) # 7 /\ modeOf(S.IR) = 4) =>
                   T'.X = IF insOf(S.IR) = 6 THEN S.AC
                          ELSE AluOf(insOf(S.IR), S.AC, BusOf(S, RAM, INreg))
      ]_vars


\* a mode-7 store at X = 0xFF has written cell [Y,X] and wrapped X to 0
C12_Witness ==
    /\ pc = "vga"
    /\ S.IR = 222
    /\ S.X = 255
    /\ S.Y = 255
    /\ T.X = 0
    /\ T.OUT = S.OUT
    /\ Peek(RAM, 32767) = S.AC
    /\ Peek(RAM, 32512) = 43
    /\ S.AC = 128

\* C13: in a cycle with ins in 0..5 the target register (AC for modes 0-3, X
\* for mode 4, Y for mode 5, OUT for modes 6-7) gets B, AC & B, AC | B,
\* AC ^ B, (AC + B) mod 256 or (AC - B) mod 256, computed from the pre-cycle
\* AC; every 8-bit register stays in 0..255; no register other than the
\* target, PC, IR, D and, in mode 7, X changes.
C13_AluWriteback ==
    [][ Cycling =>
            /\ {T'.IR, T'.D, T'.AC, T'.X, T'.Y, T'.OUT, T'.undef} \subseteq 0..255
            /\ (insOf(S.IR) <= 5) =>
                   LET v == AluOf(insOf(S.IR), S.AC, BusOf(S, RAM, INreg))
                       m == modeOf(S.IR)
                   IN  /\ T'.AC = IF m <= 3 THEN v ELSE S.AC
                       /\ T'.X = IF m = 4 THEN v
                                 ELSE IF m = 7 THEN (S.X + 1) % 256 ELSE S.X
                       /\ T'.Y = IF m = 5 THEN v ELSE S.Y
                       /\ T'.OUT = IF m \in {6, 7} THEN v ELSE S.OUT
                       /\ T'.undef = S.undef
      ]_vars

\* ADDA 192 on AC = 128 has wrapped to 64
C13_Witness ==
    /\ pc = "vga"
    /\ S.IR = 128
    /\ S.AC = 128
    /\ S.D = 192
    /\ T.AC = 64
    /\ T.X = S.X
    /\ T.OUT = S.OUT

\* the brightness of a 2-bit colour component, indexed from 1
BrightOf == <<3, 15, 63, 255>>

\* the 24-bit RGB value of the 6-bit pixel code c
RgbOf(c) ==
      BrightOf[(c % 4) + 1] * 65536
    + BrightOf[((c \div 4) % 4) + 1] * 256
    + BrightOf[((c \div 16) % 4) + 1]

\* the 2-bit component whose brightness is b
LevelOf(b) == CHOOSE i \in 0..3 : BrightOf[i + 1] = b

\* the 6-bit pixel code read back from the 24-bit RGB value rgb
CodeOf(rgb) ==
      LevelOf(rgb \div 65536)
    + 4 * LevelOf((rgb \div 256) % 256)
    + 16 * LevelOf(rgb % 256)

\* C14: unpack_color followed by makeRGB is defined on all 256 pixel bytes,
\* depends only on the low 6 bits, and maps the 64 pixel codes to 64 distinct
\* RGB values: red = bright(bits 0-1) in bits 16-23, green = bright(bits 2-3)
\* in bits 8-15, blue = bright(bits 4-5) in bits 0-7, with bright mapping
\* 0, 1, 2, 3 to 0x03, 0x0F, 0x3F, 0xFF.  The rendered pixel of every RAM
\* byte is the RGB value of its low 6 bits, and the code is read back from it.
C14_PixelToRgb ==
    (frames > 0) =>
        /\ buffer[0] = RgbOf(Peek(RAM, 2048) % 64)
        /\ CodeOf(buffer[0]) = Peek(RAM, 2048) % 64

\* the pixel byte 0xE7 has been rendered as red 0xFF, green 0x0F, blue 0x3F
C14_Witness ==
    /\ pc = "commit"
    /\ frames = 1
    /\ Peek(RAM, 2048) = 231
    /\ buffer[0] = 16715583

\* C15: the input byte IN is 0xFF in every reachable state, whatever keys are
\* held or typed, so an instruction with bus = 3 puts 0xFF on the bus: a load
\* gets 0xFF into its target and a store writes 0xFF.
C15_InputByteIdle ==
    /\ INreg = 255
    /\ (Cycled /\ S.IR % 4 = 3 /\ insOf(S.IR) = 0 /\ modeOf(S.IR) <= 3) => T.AC = 255

\* LD IN -> AC has loaded 0xFF while a joystick key is held and recorded
C15_Witness ==
    /\ pc = "vga"
    /\ S.IR = 3
    /\ S.AC = 90
    /\ T.AC = 255
    /\ down # {}
    /\ joy # None
    /\ Peek(RAM, 17) = joyByte(joy)

\* C16: a store with bus = 1 does not read RAM: the byte written to
\* RAM[address & 0x7FFF] is the undef register of the pre-cycle state, and the
\* cycle completes. No step changes undef, in S or in T, horizontal-sync
\* edges included.
C16_StoreFromRamWritesUndef ==
    [][ /\ S'.undef = S.undef
        /\ T'.undef = S.undef
        /\ (Cycling /\ insOf(S.IR) = 6 /\ S.IR % 4 = 1) =>
               /\ Peek(RAM', IndexOf(S)) = S.undef
               /\ SameExcept(RAM, RAM', {IndexOf(S)})
               /\ T'.AC = S.AC
               /\ T'.OUT = S.OUT
      ]_vars

\* ST [0x11] with bus = 1 has replaced the cell's 0 by undef = 0xA5
C16_Witness ==
    /\ pc = "vga"
    /\ S.IR = 193
    /\ S.D = 17
    /\ S.undef = 165
    /\ T.undef = 165
    /\ RAM.fill = 0
    /\ Peek(RAM, 17) = 165

\* C17: a jump cycle (ins = 7), taken or not, for every mode and bus value,
\* changes only PC, IR and D: AC, X, Y, OUT and undef are unchanged and no
\* RAM cell is written; a jump with mode 7 does not increment X and the
\* negated AC is not stored.
C17_JumpChangesOnlyPc ==
    [][ (Cycling /\ insOf(S.IR) = 7) =>
            /\ T'.AC = S.AC
            /\ T'.X = S.X
            /\ T'.Y = S.Y
            /\ T'.OUT = S.OUT
            /\ T'.undef = S.undef
            /\ RAM' = RAM
      ]_vars

\* a taken branch with all condition bits set (mode 7) has left X = 0xFF and
\* AC = 90 alone and moved PC to the target 0xC0
C17_Witness ==
    /\ pc = "vga"
    /\ S.IR = 252
    /\ S.AC = 90
    /\ S.X = 255
    /\ S.D = 192
    /\ jumped
    /\ T.PC = 192
    /\ T.X = 255
    /\ T.AC = 90

\* the cycle of this step fetches rom[p] into the new state
Fetches(p) == T'.IR = Fetch(ROM, p)[1] /\ T'.D = Fetch(ROM, p)[2]

\* the one-stage pipeline: a cycle fetches ROM[S.PC], S.PC taken after the
\* reset override, and the pair it executes is the pair the state carried
\* over from the cycle before
Pipeline ==
    /\ Cycling => Fetches(S.PC)
    /\ (pc = "commit" /\ pc' = "reset") => (S'.IR = T.IR /\ S'.D = T.D)
    /\ (pc = "reset" /\ pc' = "cpu") => (S'.IR = S.IR /\ S'.D = S.D)

\* in the cycle after a taken jump: the pair fetched during the jump cycle
\* executes, and the instruction at the jump target (T.PC, still the jump
\* cycle's result) is fetched, to execute one cycle later
AfterJump == S.IR = T.IR /\ S.D = T.D /\ Fetches(T.PC)

\* C18 as stated: the CPU is a one-stage pipeline, and whenever a jump is
\* taken in cycle n, cycle n+1 executes the delay slot and cycle n+2 the
\* instruction at the jump target.
C18_TargetAfterEveryJump ==
    [][ /\ Pipeline
        /\ (Cycling /\ jumped) => AfterJump
      ]_vars

\* C18: the CPU is a one-stage pipeline; when a jump is taken in cycle n and
\* cycle n+1 is not under the reset override (t >= 0), cycle n+1 executes the
\* pair fetched during the jump cycle and cycle n+2 the instruction at the
\* jump target; a jump taken in the first cycle (t = -2) is lost: the cycle
\* after it fetches ROM[0].
C18_TargetAfterJumpOutsideReset ==
    [][ /\ Pipeline
        /\ (Cycling /\ jumped /\ t >= 0) => AfterJump
        /\ (Cycling /\ jumped /\ t < 0) => (S.IR = T.IR /\ S.D = T.D /\ Fetches(0))
      ]_vars

\* the far jump taken at ROM[0] in cycle 2 went to 0x12FF; cycle 4 executes
\* the branch stored there
C18_Witness ==
    /\ pc = "vga"
    /\ t = 1
    /\ ROM = RomJmp
    /\ S.Y = 18
    /\ S.PC = 4863
    /\ S.IR = 240
    /\ S.D = 64

\* bit i of OUT falls in the cycle of this step
FallsNow(i) == BitOf(S.OUT, i) = 1 /\ BitOf(T'.OUT, i) = 0

\* C19: OUT changes in a cycle only if the instruction has ins in 0..5 and
\* mode 6 or 7, so a cycle that makes a vertical-sync or horizontal-sync edge
\* writes no RAM cell; the frame rendered on a vertical-sync edge is read from
\* the RAM as it was at the start of that cycle; the render changes neither
\* RAM nor a CPU register.
C19_OutOnlyByOutTarget ==
    [][ /\ (Cycling /\ T'.OUT # S.OUT) =>
               /\ insOf(S.IR) \in 0..5
               /\ modeOf(S.IR) \in {6, 7}
               /\ RAM' = RAM
        /\ (Cycling /\ (FallsNow(7) \/ FallsNow(6))) => RAM' = RAM
        /\ (Polling /\ VsEdge) =>
               /\ buffer' = [i \in SamplePixels |-> render2Pixel(RAM, i)]
               /\ RAM' = RAM
               /\ S' = S
               /\ T' = T
      ]_vars

\* LD 0 -> OUT in cycle 4 made the first vertical-sync edge; the frame shows
\* the garbled RAM byte 43 as red 0xFF, green 0x3F, blue 0x3F
C19_Witness ==
    /\ pc = "commit"
    /\ t = 1
    /\ frames = 1
    /\ S.IR = 24
    /\ S.OUT = 192
    /\ T.OUT = 0
    /\ RAM.fill = 43
    /\ buffer[0] = 16727871

\* the pair the state executes next is the pair stored at ROM[0]
AtRomZero == S.IR = Fetch(ROM, 0)[1] /\ S.D = Fetch(ROM, 0)[2]

\* C20: from every garbled power-on state and for every ROM, the first cycle
\* (t = -2) executes the garbled (IR, D) pair, from PC = 0; the second
\* (t = -1) and the third (t = 0) both execute the pair of ROM[0]; at the
\* start of the third cycle PC = 1 if ROM[0] is not a jump.
C20_PowerOnSequence ==
    [][ /\ (pc = "reset" /\ t = -2) =>
               (S'.IR = S.IR /\ S'.D = S.D /\ S'.PC = 0)
        /\ (pc = "reset" /\ t = 0) =>
               (AtRomZero /\ (insOf(Fetch(ROM, 0)[1]) # 7 => S.PC = 1) /\ S' = S)
        /\ (Cycling /\ t \in {-1, 0}) => AtRomZero
      ]_vars

\* the third cycle is about to execute LD 0x42 of ROM[0] a second time, at
\* PC = 1; the garbled store of the first cycle has put AC = 90 into RAM
C20_Witness ==
    /\ pc = "cpu"
    /\ t = 0
    /\ ROM = RomLd
    /\ S.PC = 1
    /\ S.IR = 0
    /\ S.D = 66
    /\ S.AC = 66
    /\ RAM.fill = 43
    /\ Peek(RAM, 32767) = 90

=============================================================================
